---- MODULE Spec2Model ----
(***************************************************************************)
(* Model of the election-result dashboards app.py and v2app.py: the margin *)
(* analysis (groupby / sort / head / nth / merge and the top-2 pivot), the *)
(* natural sort of the unit ids, and the PDF report loops.                 *)
(*                                                                         *)
(* A string is a sequence of code points ("10" is <<49, 48>>), so that     *)
(* str.isdigit, int() and Python's string comparison are computed.         *)
(* A DataFrame is a sequence of records, in row order.                     *)
(***************************************************************************)
EXTENDS Integers, Sequences, FiniteSets, TLC

VARIABLES
    table,      \* df: the loaded election table, a sequence of vote records
    entries,    \* app.py: agg, the aggregated entries of get_margin_analysis
    margin_df,  \* app.py tab2: the result of get_margin_analysis(df)
    pivot,      \* v2app.py tab2: the top-2 pivot, or the error it raised
    pc_app,     \* where the app.py script is (margin analysis)
    pc_v2,      \* where the v2app.py script is (margin analysis)
    script,     \* the script of a report run: "app" or "v2app"
    rpc,        \* where the report run is
    unique_prabhags,         \* the sidebar's sorted unit ids
    selected_pdf_prabhags,   \* the unit filter
    selected_pdf_parties,    \* the party filter
    report,     \* the report asked for: generate_pdf, full_result, margin_report
    report_prabhags,         \* the units (or categories) the report loops over
    pages,      \* the pages added to the PDF so far
    tmp_files,  \* the temporary image files that exist
    outcome     \* how the run ended: download, st.error, or the exception raised

marginVars == <<entries, margin_df, pivot, pc_app, pc_v2>>
reportVars == <<script, rpc, unique_prabhags, selected_pdf_prabhags,
                selected_pdf_parties, report, report_prabhags, pages, tmp_files,
                outcome>>
vars == <<table, marginVars, reportVars>>

\* ------------------------------------------------------------ strings

Min(a, b) == IF a < b THEN a ELSE b

\* Python's str < str: code point by code point, a proper prefix is smaller.
StrLess(a, b) ==
    \E k \in 1..(Min(Len(a), Len(b)) + 1) :
        /\ \A j \in 1..(k - 1) : a[j] = b[j]
        /\ \/ k > Len(a) /\ k <= Len(b)
           \/ k <= Len(a) /\ k <= Len(b) /\ a[k] < b[k]

\* The code points with the Unicode property Numeric_Type=Decimal come in runs
\* of ten, '0' to '9' of one script: the code point of the zero of every run
\* (ASCII 48, Arabic-Indic 1632, Devanagari 2406, full-width 65296, ...).
DecimalZeros ==
    {48, 1632, 1776, 1984, 2406, 2534, 2662, 2790, 2918, 3046, 3174, 3302, 3430,
     3558, 3664, 3792, 3872, 4160, 4240, 6112, 6160, 6470, 6608, 6784, 6800,
     6992, 7088, 7232, 7248, 42528, 43216, 43264, 43472, 43504, 43600, 44016,
     65296, 66720, 68912, 69734, 69872, 69942, 70096, 70384, 70736, 70864,
     71248, 71360, 71472, 71904, 72016, 72784, 73040, 73120, 92768, 92864,
     93008, 120782, 120792, 120802, 120812, 120822, 123200, 123632, 125264,
     130032}

\* The code points with Numeric_Type=Digit that are no decimals: superscripts
\* (178 is the superscript two), subscripts, circled and parenthesized digits.
OtherDigits ==
    (178..179) \cup {185} \cup (4969..4977) \cup {6618} \cup {8304}
    \cup (8308..8313) \cup (8320..8329) \cup (9312..9320) \cup (9332..9340)
    \cup (9352..9360) \cup {9450} \cup (9461..9469) \cup {9471}
    \cup (10102..10110) \cup (10112..10120) \cup (10122..10130)
    \cup (68160..68163) \cup (69216..69224) \cup (69714..69722)
    \cup (127232..127242)

\* A character int() reads as a decimal digit, and the digit it stands for.
isdecimal_char(c) == \E z \in DecimalZeros : c \in z..(z + 9)
digit_value(c) == c - (CHOOSE z \in DecimalZeros : c \in z..(z + 9))

\* str.isdigit: non-empty and every character a decimal or another digit.
isdigit(s) ==
    /\ Len(s) > 0
    /\ \A i \in 1..Len(s) : isdecimal_char(s[i]) \/ s[i] \in OtherDigits

\* A sequence of digits without its leading zeros (zero is <<0>>).
strip_zeros(d) ==
    LET nz == {i \in 1..Len(d) : d[i] # 0}
    IN  IF nz = {} THEN <<0>>
        ELSE SubSeq(d, CHOOSE i \in nz : \A j \in nz : i <= j, Len(d))

\* sys.int_max_str_digits, which neither script changes: int() refuses a
\* string of more digits.
int_max_str_digits == 4300

\* int(s) of a string that passed isdigit, base 10. Python's int has no width:
\* the value is kept as its decimal digits, most significant first. A digit
\* that is no decimal (the superscript two) makes int() raise ValueError, and
\* so do more than int_max_str_digits digits, leading zeros counted.
int(s) ==
    IF /\ Len(s) > 0
       /\ Len(s) <= int_max_str_digits
       /\ \A i \in 1..Len(s) : isdecimal_char(s[i])
    THEN [error |-> "none",
          value |-> strip_zeros([i \in 1..Len(s) |-> digit_value(s[i])])]
    ELSE [error |-> "ValueError", value |-> <<>>]

\* int < int on two values of int().
int_less(a, b) ==
    \/ Len(a) < Len(b)
    \/ /\ Len(a) = Len(b)
       /\ \E k \in 1..Len(a) :
             /\ \A j \in 1..(k - 1) : a[j] = b[j]
             /\ a[k] < b[k]

\* A missing cell (NaN) and a present one, for the columns that can hold NaN.
NaN == [isna |-> TRUE]
notna(x) == [isna |-> FALSE, value |-> x]
fillna(c, d) == IF c.isna THEN d ELSE c.value

\* ------------------------------------------------------------ sequences

\* The rows of s at the indexes in idx, in row order (a boolean-mask selection).
Take(s, idx) ==
    [k \in 1..Cardinality(idx) |->
        s[CHOOSE i \in idx : Cardinality({j \in idx : j < i}) = k - 1]]

\* A stable sort of s by a strict weak order, given as lt[i, j] for "row i is
\* before row j": rows that are equal in the order keep their order.
StableSort(s, lt) ==
    LET n == Len(s)
        Before(j, i) == lt[j, i] \/ (~lt[i, j] /\ j < i)
        rank(i) == Cardinality({j \in 1..n : Before(j, i)})
    IN  [k \in 1..n |-> s[CHOOSE i \in 1..n : rank(i) = k - 1]]

\* The elements of the set S in ascending order of a strict total order, given
\* as lt[x, y].
SortSet(S, lt) ==
    [k \in 1..Cardinality(S) |->
        CHOOSE x \in S : Cardinality({y \in S : lt[y, x]}) = k - 1]

\* Series.unique(): the distinct values in order of first appearance.
unique(s) == Take(s, {i \in 1..Len(s) : \A j \in 1..(i - 1) : s[j] # s[i]})

Range(s) == {s[i] : i \in 1..Len(s)}

RECURSIVE SumVotes(_)
SumVotes(s) == IF s = <<>> THEN 0 ELSE Head(s).Votes + SumVotes(Tail(s))

\* ------------------------------------------------------------ natural sort

\* natural_sort_key: int(s) if s.isdigit() else s. The key is an int, a str,
\* or the ValueError of int().
natural_sort_key(s) ==
    IF isdigit(s)
    THEN [error |-> int(s).error, is_int |-> TRUE, num |-> int(s).value, str |-> <<>>]
    ELSE [error |-> "none", is_int |-> FALSE, num |-> <<>>, str |-> s]

\* key < key: int < int, or str < str; between an int and a str Python raises
\* TypeError ('<' not supported between instances of 'str' and 'int').
KeyLess(a, b) ==
    IF a.is_int # b.is_int THEN [error |-> "TypeError", value |-> FALSE]
    ELSE [error |-> "none",
          value |-> IF a.is_int THEN int_less(a.num, b.num)
                    ELSE StrLess(a.str, b.str)]

\* natural_sort_key(x) < natural_sort_key(y): the ValueError of a key, the
\* TypeError of the comparison, or its value.
NaturalLess(x, y) ==
    LET kx == natural_sort_key(x)
        ky == natural_sort_key(y)
    IN  IF kx.error # "none" \/ ky.error # "none"
        THEN [error |-> "ValueError", value |-> FALSE]
        ELSE KeyLess(kx, ky)

\* sorted(xs, key=natural_sort_key): the keys of all items are computed first,
\* and a ValueError of int() ends the call; then a stable sort by key, which
\* compares an int key with a str key as soon as the list holds both, and ends
\* with the TypeError of that comparison.
sorted_natural(xs) ==
    LET keys == [i \in 1..Len(xs) |-> natural_sort_key(xs[i])]
    IN  IF \E i \in 1..Len(xs) : keys[i].error # "none"
        THEN [error |-> "ValueError", value |-> <<>>]
        ELSE IF \E i, j \in 1..Len(xs) : KeyLess(keys[i], keys[j]).error # "none"
        THEN [error |-> "TypeError", value |-> <<>>]
        ELSE [error |-> "none",
              value |-> StableSort(xs, [i \in 1..Len(xs), j \in 1..Len(xs) |->
                                          KeyLess(keys[i], keys[j]).value])]

\* sorted(xs) of strings.
sorted_str(xs) ==
    StableSort(xs, [i \in 1..Len(xs), j \in 1..Len(xs) |-> StrLess(xs[i], xs[j])])

Prabhags(df) == [i \in 1..Len(df) |-> df[i].Prabhag]
Parties(df) == [i \in 1..Len(df) |-> df[i].Party]
Election_types(df) == [i \in 1..Len(df) |-> df[i].Election_type]

\* ------------------------------------------------------------ aggregation

Key4(r) == <<r.Prabhag, r.Election_type, r.Name, r.Party>>

\* Tuples of strings compared like Python tuples: by the first differing item.
TupleLess(a, b) ==
    \E k \in 1..Len(a) :
        /\ \A j \in 1..(k - 1) : a[j] = b[j]
        /\ StrLess(a[k], b[k])

\* The keys of a groupby, in ascending order.
SortKeys(K) == SortSet(K, [x \in K, y \in K |-> TupleLess(x, y)])

\* A mutation of the sum: the last record of a key overwrites the earlier ones.
groupby_last(data) ==
    LET keys == SortKeys({Key4(data[i]) : i \in 1..Len(data)})
    IN  [k \in 1..Len(keys) |->
            LET rows == SelectSeq(data, LAMBDA r : Key4(r) = keys[k])
            IN  [Prabhag |-> keys[k][1], Election_type |-> keys[k][2],
                 Name |-> keys[k][3], Party |-> keys[k][4],
                 Votes |-> rows[Len(rows)].Votes]]

\* A mutation of the grouping: groupby(sort=False), the keys in the order in
\* which they first appear in the input.
groupby_unsorted(data) ==
    LET keys == unique([i \in 1..Len(data) |-> Key4(data[i])])
    IN  [k \in 1..Len(keys) |->
            [Prabhag |-> keys[k][1], Election_type |-> keys[k][2],
             Name |-> keys[k][3], Party |-> keys[k][4],
             Votes |-> SumVotes(SelectSeq(data, LAMBDA r : Key4(r) = keys[k]))]]

\* data.groupby(['Prabhag','Election_type','Name','Party'])['Votes'].sum()
\*     .reset_index(): one row per distinct key, the rows in ascending key order
\* (groupby sorts its keys), Votes the sum over the rows of the key.
groupby_sum(data) ==
    LET keys == SortKeys({Key4(data[i]) : i \in 1..Len(data)})
    IN  [k \in 1..Len(keys) |->
            [Prabhag |-> keys[k][1], Election_type |-> keys[k][2],
             Name |-> keys[k][3], Party |-> keys[k][4],
             Votes |-> SumVotes(SelectSeq(data, LAMBDA r : Key4(r) = keys[k]))]]

SameGroup(a, b) == a.Prabhag = b.Prabhag /\ a.Election_type = b.Election_type

\* A mutation of the sort: Votes ascending.
VotesAscLess(a, b) ==
    \/ StrLess(a.Prabhag, b.Prabhag)
    \/ a.Prabhag = b.Prabhag /\ StrLess(a.Election_type, b.Election_type)
    \/ SameGroup(a, b) /\ a.Votes < b.Votes

\* The order of sort_values(['Prabhag','Election_type','Votes'],
\* ascending=[True, True, False]).
VotesDescLess(a, b) ==
    \/ StrLess(a.Prabhag, b.Prabhag)
    \/ a.Prabhag = b.Prabhag /\ StrLess(a.Election_type, b.Election_type)
    \/ SameGroup(a, b) /\ a.Votes > b.Votes

\* sort_values on several columns is a stable lexsort: rows equal on all three
\* columns keep the order of agg, which is the key order of the groupby.
sort_values(agg) ==
    StableSort(agg, [i \in 1..Len(agg), j \in 1..Len(agg) |->
                        VotesDescLess(agg[i], agg[j])])

\* groupby(['Prabhag','Election_type']).cumcount(): the position of row i
\* within its group.
cumcount(s, i) == Cardinality({j \in 1..(i - 1) : SameGroup(s[j], s[i])})

\* A mutation of head: off by one, the n rows after the first of every group.
head_skip(s, n) == Take(s, {i \in 1..Len(s) : 1 <= cumcount(s, i) /\ cumcount(s, i) <= n})

\* groupby(...).head(n): the first n rows of every group, in row order.
head(s, n) == Take(s, {i \in 1..Len(s) : cumcount(s, i) < n})

\* A mutation of nth: off by one, the row after the one asked for.
nth_next(s, n) == Take(s, {i \in 1..Len(s) : cumcount(s, i) = n + 1})

\* groupby(...).nth(n): the row at position n of every group that has one.
nth(s, n) == Take(s, {i \in 1..Len(s) : cumcount(s, i) = n})

\* ------------------------------------------------------------ margin analysis

\* app.py get_margin_analysis: winners = head(1), runners = nth(1), and the
\* inner merge on (Prabhag, Election_type): a winner with no runner row has no
\* row in the result. The rows keep the order of winners.
get_margin_analysis(data) ==
    LET agg        == groupby_sum(data)
        sorted_agg == sort_values(agg)
        winners    == head(sorted_agg, 1)
        runners    == nth(sorted_agg, 1)
        matched    == Take(winners, {i \in 1..Len(winners) :
                          \E j \in 1..Len(runners) : SameGroup(winners[i], runners[j])})
    IN  [k \in 1..Len(matched) |->
            LET w == matched[k]
                r == runners[CHOOSE j \in 1..Len(runners) : SameGroup(w, runners[j])]
            IN  [Prabhag |-> w.Prabhag, Election_type |-> w.Election_type,
                 Name_W |-> w.Name, Party_W |-> w.Party, Votes_W |-> w.Votes,
                 Votes_R |-> r.Votes, Party_R |-> r.Party, Name_R |-> r.Name,
                 Margin |-> w.Votes - r.Votes]]

\* ------------------------------------------------------------ float64

\* The element of a set of one element. {F(x) : x \in {e}} computes e once and
\* gives its value the name x.
The(S) == CHOOSE r \in S : TRUE

Max(a, b) == IF a < b THEN b ELSE a

\* A natural number of any size is kept as its digits to the base 2^15, the
\* least significant first and the most significant not 0; zero is <<>>.
LimbBits == 15
Base == 2^LimbBits

limb(a, i) == IF 1 <= i /\ i <= Len(a) THEN a[i] ELSE 0

big_norm(a0) ==
    The({LET nz == {i \in 1..Len(a) : a[i] # 0}
         IN  SubSeq(a, 1, IF nz = {} THEN 0
                          ELSE CHOOSE i \in nz : \A j \in nz : j <= i)
         : a \in {a0}})

\* The number x of the model checker, 0 <= x < 2^30.
big(x) == big_norm(<<x % Base, x \div Base>>)

big_less(a0, b0) ==
    The({\/ Len(a) < Len(b)
         \/ /\ Len(a) = Len(b)
            /\ \E k \in 1..Len(a) :
                  /\ a[k] < b[k]
                  /\ \A j \in (k + 1)..Len(a) : a[j] = b[j]
         : a \in {a0}, b \in {b0}})

\* The number whose digit i is c[i] before the carries are taken, every c[i]
\* below 2^30.
big_carry(c0) ==
    The({LET n == Len(c) + 2
             carry[i \in 0..n] ==
                 IF i = 0 THEN 0 ELSE (limb(c, i) + carry[i - 1]) \div Base
         IN  big_norm([i \in 1..n |-> (limb(c, i) + carry[i - 1]) % Base])
         : c \in {c0}})

big_add(a0, b0) ==
    The({big_carry([i \in 1..Max(Len(a), Len(b)) |-> limb(a, i) + limb(b, i)])
         : a \in {a0}, b \in {b0}})

\* a - b for a >= b.
big_sub(a0, b0) ==
    The({LET n == Len(a)
             borrow[i \in 0..n] ==
                 IF i = 0 THEN 0
                 ELSE IF limb(a, i) - limb(b, i) - borrow[i - 1] < 0 THEN 1 ELSE 0
         IN  big_norm([i \in 1..n |->
                          (limb(a, i) - limb(b, i) - borrow[i - 1] + Base) % Base])
         : a \in {a0}, b \in {b0}})

\* a * k for 0 <= k < 2^15.
big_mul_small(a0, k) ==
    The({big_carry([i \in 1..Len(a) |-> a[i] * k]) : a \in {a0}})

\* a * b, column by column: the product of two digits is split into its own
\* two digits, which are summed in their columns before the carries are taken.
big_mul(a0, b0) ==
    The({LET term(i, j) == IF 1 <= j /\ j <= Len(b) THEN a[i] * b[j] ELSE 0
             col(k) ==
                 LET sum[i \in 0..Len(a)] ==
                         IF i = 0 THEN 0
                         ELSE sum[i - 1] + (term(i, k + 1 - i) % Base)
                                         + (term(i, k - i) \div Base)
                 IN  sum[Len(a)]
         IN  big_carry([k \in 1..(Len(a) + Len(b)) |-> col(k)])
         : a \in {a0}, b \in {b0}})

\* The number of binary digits of a, and the binary digit i of a (the lowest
\* is the digit 0).
big_bitlen(a0) ==
    The({IF a = <<>> THEN 0
         ELSE LimbBits * (Len(a) - 1)
                  + Cardinality({k \in 0..(LimbBits - 1) : 2^k <= a[Len(a)]})
         : a \in {a0}})
big_bit(a, i) == (limb(a, (i \div LimbBits) + 1) \div 2^(i % LimbBits)) % 2

\* a * 2^s and the whole part of a / 2^s.
big_shl(a0, s) ==
    The({big_norm([j \in 1..(Len(a) + k + 1) |->
                      IF j <= k THEN 0
                      ELSE (limb(a, j - k) % 2^(LimbBits - r)) * 2^r
                               + (limb(a, j - k - 1) \div 2^(LimbBits - r))])
         : a \in {a0}, k \in {s \div LimbBits}, r \in {s % LimbBits}})
big_shr(a0, s) ==
    The({big_norm([j \in 1..Max(0, Len(a) - k) |->
                      (limb(a, j + k) \div 2^r)
                          + (limb(a, j + k + 1) % 2^r) * 2^(LimbBits - r)])
         : a \in {a0}, k \in {s \div LimbBits}, r \in {s % LimbBits}})

\* The s lowest binary digits of a are all 0.
big_low_zero(a0, s) ==
    The({/\ \A j \in 1..(s \div LimbBits) : limb(a, j) = 0
         /\ limb(a, (s \div LimbBits) + 1) % 2^(s % LimbBits) = 0
         : a \in {a0}})

\* The number of 0 digits at the low end of a, for a > 0.
big_tz(a0) ==
    The({LET j == CHOOSE i \in 1..Len(a) : a[i] # 0 /\ \A h \in 1..(i - 1) : a[h] = 0
         IN  LimbBits * (j - 1)
                 + Cardinality({k \in 1..(LimbBits - 1) : a[j] % 2^k = 0})
         : a \in {a0}})

\* The largest digit q with q * d <= r, for r < d * 2^15, one binary digit
\* after the other from the binary digit k down.
RECURSIVE quot_limb(_, _, _, _)
quot_limb(r, d, q, k) ==
    IF k < 0 THEN q
    ELSE The({quot_limb(r, d, nq, k - 1)
              : nq \in {IF big_less(r, big_mul_small(d, q + 2^k)) THEN q
                        ELSE q + 2^k}})

\* The quotient and the remainder of n / d, d > 0, by long division, one digit
\* of n after the other: qr0 is the quotient and the remainder of the digits
\* above the digit i.
RECURSIVE big_divmod_from(_, _, _, _)
big_divmod_from(n, d, i, qr0) ==
    IF i = 0 THEN qr0
    ELSE The({The({The({big_divmod_from(n, d, i - 1,
                           <<big_norm(<<ql>> \o qr[1]),
                             big_sub(r, big_mul_small(d, ql))>>)
                        : ql \in {quot_limb(r, d, 0, LimbBits - 1)}})
                   : r \in {big_norm(<<n[i]>> \o qr[2])}})
              : qr \in {qr0}})
big_divmod(n0, d0) ==
    The({IF Len(n) <= 2 /\ Len(d) <= 2
         THEN LET x == limb(n, 1) + Base * limb(n, 2)
                  y == limb(d, 1) + Base * limb(d, 2)
              IN  <<big(x \div y), big(x % y)>>
         ELSE big_divmod_from(n, d, Len(n), <<<<>>, <<>>>>)
         : n \in {n0}, d \in {d0}})

\* 5^k, by squaring.
RECURSIVE big_pow5(_)
big_pow5(k) ==
    IF k = 0 THEN <<1>>
    ELSE IF k % 2 = 1 THEN big_mul_small(big_pow5(k - 1), 5)
    ELSE The({big_mul(h, h) : h \in {big_pow5(k \div 2)}})

\* A float64 is kept as its sign and its value m * 2^e, m odd; zero has m = <<>>
\* and keeps its sign. The other values of the parser are the infinities.
float64(neg, m0, e) ==
    The({IF m = <<>> THEN [kind |-> "num", neg |-> neg, m |-> <<>>, e |-> 0]
         ELSE The({[kind |-> "num", neg |-> neg, m |-> big_shr(m, z), e |-> e + z]
                   : z \in {big_tz(m)}})
         : m \in {m0}})
infinity(neg) == [kind |-> "inf", neg |-> neg, m |-> <<>>, e |-> 0]

\* The float64 nearest to (n + f) * 2^q, where 0 <= f < 1 and f > 0 exactly
\* when sticky: 53 binary digits, fewer below 2^-1022, a tie goes to the even
\* neighbour, and a value of 2^1024 or more is infinite.
fl(neg, n0, sticky, q) ==
    The({IF n = <<>> THEN float64(neg, <<>>, 0)
         ELSE LET top == big_bitlen(n) - 1 + q
                  u   == Max(top - 52, 0 - 1074)
                  s   == u - q
              IN  IF s <= 0
                  THEN IF top > 1023 THEN infinity(neg) ELSE float64(neg, n, q)
                  ELSE The({IF big_bitlen(m1) + u > 1024 THEN infinity(neg)
                            ELSE float64(neg, m1, u)
                            : m1 \in {The({IF /\ big_bit(n, s - 1) = 1
                                              /\ \/ sticky
                                                 \/ ~big_low_zero(n, s - 1)
                                                 \/ limb(m0, 1) % 2 = 1
                                           THEN big_add(m0, <<1>>) ELSE m0
                                           : m0 \in {big_shr(n, s)}})}})
         : n \in {n0}})

\* x * y and x / y in float64, for finite x and y, y not zero.
fl_mul(x0, y0) ==
    The({fl(x.neg # y.neg, big_mul(x.m, y.m), FALSE, x.e + y.e)
         : x \in {x0}, y \in {y0}})
fl_div(x0, y0) ==
    The({IF x.m = <<>> THEN float64(x.neg # y.neg, <<>>, 0)
         ELSE The({IF qr[2] = <<>>
                   THEN fl(x.neg # y.neg, qr[1], FALSE, x.e - y.e)
                   ELSE The({The({fl(x.neg # y.neg, QR[1], QR[2] # <<>>, x.e - y.e - t)
                                  : QR \in {big_divmod(big_shl(x.m, t), y.m)}})
                             : t \in {Max(0, 55 + big_bitlen(y.m) - big_bitlen(x.m))}})
                   : qr \in {big_divmod(x.m, y.m)}})
         : x \in {x0}, y \in {y0}})

\* The entry e[k] of the parser's table of powers of ten: the float64 nearest
\* to 10^k = 5^k * 2^k, for k in 0..308.
pow10(k) == fl(FALSE, big_pow5(k), FALSE, k)

\* The whole number an integral float64 stands for, and back.
float_int(x0) == The({big_shl(x.m, x.e) : x \in {x0}})

\* |a| < |b| and a < b for two values of the parser; -0.0 = 0.0.
mag_less(a0, b0) ==
    The({IF a.kind = "inf" THEN FALSE
         ELSE IF b.kind = "inf" THEN TRUE
         ELSE IF b.m = <<>> THEN FALSE
         ELSE IF a.m = <<>> THEN TRUE
         ELSE The({\/ la < lb
                   \/ /\ la = lb
                      /\ big_less(big_shl(a.m, a.e - Min(a.e, b.e)),
                                  big_shl(b.m, b.e - Min(a.e, b.e)))
                   : la \in {big_bitlen(a.m) + a.e}, lb \in {big_bitlen(b.m) + b.e}})
         : a \in {a0}, b \in {b0}})
is_zero(a) == a.kind = "num" /\ a.m = <<>>
num_less(a0, b0) ==
    The({IF is_zero(a) /\ is_zero(b) THEN FALSE
         ELSE IF a.neg # b.neg THEN a.neg
         ELSE IF a.neg THEN mag_less(b, a) ELSE mag_less(a, b)
         : a \in {a0}, b \in {b0}})

\* ------------------------------------------------------------ to_numeric

\* max_digits of the parser of pandas (precise_xstrtod), and the largest int of
\* its exponent counter.
max_digits == 17
INT_MAX == 2147483647

\* A whole number rounded to float64.
round_int(n0) ==
    The({IF big_bitlen(n) <= 53 THEN n ELSE float_int(fl(FALSE, n, FALSE, 0))
         : n \in {n0}})

\* number = number * 10. + digit. The product is rounded and then the sum; a
\* build that contracts the two into a fused multiply-add rounds once.
accumulate(number, d, fma) ==
    IF fma THEN round_int(big_add(big_mul_small(number, 10), big(d)))
    ELSE round_int(big_add(round_int(big_mul_small(number, 10)), big(d)))

\* The parser reads a number character by character: white space, a sign,
\* digits with an optional decimal point, an optional exponent e[sign]digits,
\* white space. Only ASCII digits count. What it has read: the part it is in,
\* the sign, number, num_digits (the digits that went into number, leading
\* zeros too, at most max_digits), exponent (the digits before the point that
\* did not), num_decimals, maybe_int, and of the exponent its sign, its value
\* n, its digits and whether n went beyond INT_MAX.
parse_start ==
    [part |-> "lead", neg |-> FALSE, number |-> <<>>, num_digits |-> 0,
     exponent |-> 0, num_decimals |-> 0, maybe_int |-> TRUE, eneg |-> FALSE,
     n |-> 0, e_digits |-> 0, n_ovf |-> FALSE]

\* The parser after the character c.
parse_step(st, c, fma) ==
    LET digit == c \in 48..57
        space == c \in (9..13) \cup {32}
        sign  == c \in {43, 45}
        point == c = 46
        expo  == c \in {69, 101}
        fail  == [st EXCEPT !.part = "fail"]
        whole == IF st.num_digits < max_digits
                 THEN [st EXCEPT !.part = "int",
                                 !.number = accumulate(st.number, c - 48, fma),
                                 !.num_digits = @ + 1]
                 ELSE [st EXCEPT !.part = "int", !.exponent = @ + 1]
        frac  == [st EXCEPT !.part = "frac", !.maybe_int = FALSE]
        edig  == IF st.e_digits >= max_digits THEN fail
                 ELSE IF st.n_ovf \/ st.n > (INT_MAX - (c - 48)) \div 10
                 THEN [st EXCEPT !.part = "exp", !.n_ovf = TRUE, !.e_digits = @ + 1]
                 ELSE [st EXCEPT !.part = "exp", !.n = 10 * @ + (c - 48),
                                 !.e_digits = @ + 1]
    IN  CASE st.part = "lead" ->
                 IF space THEN st
                 ELSE IF sign THEN [st EXCEPT !.part = "sign", !.neg = (c = 45)]
                 ELSE IF digit THEN whole
                 ELSE IF point THEN frac
                 ELSE fail
          [] st.part = "sign" ->
                 IF digit THEN whole ELSE IF point THEN frac ELSE fail
          [] st.part = "int" ->
                 IF digit THEN whole
                 ELSE IF point THEN frac
                 ELSE IF expo THEN [st EXCEPT !.part = "e", !.maybe_int = FALSE]
                 ELSE IF space THEN [st EXCEPT !.part = "trail"]
                 ELSE fail
          [] st.part = "frac" ->
                 IF digit
                 THEN IF st.num_digits < max_digits
                      THEN [st EXCEPT !.number = accumulate(st.number, c - 48, fma),
                                      !.num_digits = @ + 1, !.num_decimals = @ + 1]
                      ELSE st
                 ELSE IF st.num_digits = 0 THEN fail
                 ELSE IF expo THEN [st EXCEPT !.part = "e"]
                 ELSE IF space THEN [st EXCEPT !.part = "trail"]
                 ELSE fail
          [] st.part = "e" ->
                 IF sign THEN [st EXCEPT !.part = "esign", !.eneg = (c = 45)]
                 ELSE IF digit THEN edig
                 ELSE fail
          [] st.part = "esign" -> IF digit THEN edig ELSE fail
          [] st.part = "exp" ->
                 IF digit THEN edig
                 ELSE IF space THEN [st EXCEPT !.part = "trail"]
                 ELSE fail
          [] st.part = "trail" -> IF space THEN st ELSE fail
          [] OTHER -> fail

\* The parser after the characters s[lo..hi], the first half and then the
\* second.
RECURSIVE parse_range(_, _, _, _, _)
parse_range(s, lo, hi, st0, fma) ==
    The({IF lo > hi THEN st
         ELSE IF lo = hi THEN parse_step(st, s[lo], fma)
         ELSE parse_range(s, ((lo + hi) \div 2) + 1, hi,
                          parse_range(s, lo, (lo + hi) \div 2, st, fma), fma)
         : st \in {st0}})

\* number scaled by 10^exponent with the table of powers of ten: one product
\* or quotient, two quotients below 10^-308, 0 below 10^-616; an exponent
\* beyond 308 and an infinite result are errors.
scaled(x0, exponent) ==
    The({IF x.kind = "inf" THEN [error |-> TRUE, value |-> x]
         ELSE [error |-> FALSE, value |-> x]
         : x \in {IF exponent > 308 THEN infinity(x0.neg)
                  ELSE IF exponent > 0 THEN fl_mul(x0, pow10(exponent))
                  ELSE IF exponent < 0 - 616 THEN float64(FALSE, <<>>, 0)
                  ELSE IF exponent < 0 - 308
                  THEN fl_div(fl_div(x0, pow10(0 - 308 - exponent)), pow10(308))
                  ELSE fl_div(x0, pow10(0 - exponent))}})

\* The exponents the parser can end with. exponent - num_decimals -+ n is an
\* int: where n or the sum goes beyond INT_MAX the behaviour of the C code is
\* undefined, and the result is that of any exponent (all those above 308
\* give the same, and all those below -616).
exponents(st) ==
    LET base == st.exponent - st.num_decimals
    IN  IF \/ st.n_ovf
           \/ ~st.eneg /\ base > 0 /\ st.n > INT_MAX - base
           \/ st.eneg /\ base < 0 /\ st.n - 1 > INT_MAX + base
        THEN (0 - 617)..309
        ELSE {IF st.eneg THEN base - st.n ELSE base + st.n}

\* precise_xstrtod on a C string, with the test of to_double that the whole
\* string was read: the results it can give, each an error or a float64 with
\* maybe_int.
precise_xstrtod(s0, fma) ==
    The({IF st.part \notin {"int", "frac", "exp", "trail"} \/ st.num_digits = 0
         THEN {[error |-> TRUE, value |-> infinity(FALSE), maybe_int |-> FALSE]}
         ELSE {[error |-> r.error, value |-> r.value, maybe_int |-> st.maybe_int]
               : r \in {scaled(float64(st.neg, st.number, 0), x) : x \in exponents(st)}}
         : st \in {The({parse_range(s, 1, Len(s), parse_start, fma) : s \in {s0}})}})

\* s lower-cased is "inf" or "infinity", after an optional sign.
is_inf_word(s) ==
    LET body == IF Len(s) > 0 /\ s[1] \in {43, 45} THEN Tail(s) ELSE s
        low  == [i \in 1..Len(body) |->
                    IF body[i] \in 65..90 THEN body[i] + 32 ELSE body[i]]
    IN  low \in {<<105, 110, 102>>, <<105, 110, 102, 105, 110, 105, 116, 121>>}

\* The C string of a str: its characters before the first NUL.
c_string(s) ==
    LET nul == {i \in 1..Len(s) : s[i] = 0}
    IN  IF nul = {} THEN s
        ELSE SubSeq(s, 1, (CHOOSE i \in nul : \A j \in nul : i <= j) - 1)

\* The largest and the smallest int64 and the largest uint64, as digits.
INT64_MAX == <<9, 2, 2, 3, 3, 7, 2, 0, 3, 6, 8, 5, 4, 7, 7, 5, 8, 0, 7>>
INT64_MIN == <<9, 2, 2, 3, 3, 7, 2, 0, 3, 6, 8, 5, 4, 7, 7, 5, 8, 0, 8>>
UINT64_MAX == <<1, 8, 4, 4, 6, 7, 4, 4, 0, 7, 3, 7, 0, 9, 5, 5, 1, 6, 1, 5>>

\* What one id becomes in maybe_convert_numeric(coerce_numeric=True): floatify
\* gives a float64 (the parser's, or an infinity for the words inf and
\* infinity) or fails, and an id that may be an int is read with int(val) too.
\* A failure of either is a missing value: floatify fails on an id that has no
\* UTF-8 encoding (a lone surrogate), int(val) on a NUL after the number (the
\* parser has failed before on the digits int() would find too many).
NoCell == [isna |-> TRUE, maybe_int |-> FALSE, fval |-> infinity(FALSE),
           neg |-> FALSE, digits |-> <<>>]
convert(s0, fma) ==
    The({{IF \E i \in 1..Len(s) : s[i] \in 55296..57343 THEN NoCell
          ELSE IF ~r.error
          THEN IF ~r.maybe_int
               THEN [NoCell EXCEPT !.isna = FALSE, !.fval = r.value]
               ELSE IF Len(cs) < Len(s) THEN NoCell
               ELSE The({[isna |-> FALSE, maybe_int |-> TRUE, fval |-> r.value,
                          neg |-> 45 \in Range(s) /\ d # <<0>>, digits |-> d]
                         : d \in {strip_zeros(
                               [i \in 1..Len(SelectSeq(s, LAMBDA c : c \in 48..57)) |->
                                   SelectSeq(s, LAMBDA c : c \in 48..57)[i] - 48])}})
          ELSE IF is_inf_word(cs)
          THEN [NoCell EXCEPT !.isna = FALSE, !.fval = infinity(cs[1] = 45)]
          ELSE NoCell
          : r \in precise_xstrtod(cs, fma)}
         : s \in {s0}, cs \in {c_string(s0)}})

\* int < int for two cells read as ints.
cell_int_less(a, b) ==
    IF a.neg # b.neg THEN a.neg
    ELSE IF a.neg THEN int_less(b.digits, a.digits) ELSE int_less(a.digits, b.digits)

\* The columns of cells the ids can become.
RECURSIVE cells_of(_, _)
cells_of(ids, fma) ==
    IF ids = <<>> THEN {<<>>}
    ELSE {<<c>> \o rest : c \in convert(Head(ids), fma),
                          rest \in cells_of(Tail(ids), fma)}

\* The dtype of the result of maybe_convert_numeric(coerce_numeric=True):
\* float64 as soon as an id is missing, is no int, is an int outside int64 and
\* uint64, or an int beyond int64 meets a negative int; else uint64 when an
\* int is beyond int64, else int64. (The ids are returned unconverted for
\* such a conflict only when coerce_numeric is off.)
dtype_of(cells) ==
    LET ints  == {i \in 1..Len(cells) : ~cells[i].isna /\ cells[i].maybe_int}
        null  == \E i \in 1..Len(cells) : cells[i].isna
        sint  == \E i \in ints : cells[i].neg /\ ~int_less(INT64_MIN, cells[i].digits)
        uint  == \E i \in ints : /\ ~cells[i].neg
                                 /\ int_less(INT64_MAX, cells[i].digits)
                                 /\ ~int_less(UINT64_MAX, cells[i].digits)
        wide  == \E i \in ints :
                     IF cells[i].neg THEN int_less(INT64_MIN, cells[i].digits)
                     ELSE int_less(UINT64_MAX, cells[i].digits)
        float == \/ null
                 \/ wide
                 \/ uint /\ sint
                 \/ \E i \in 1..Len(cells) : ~cells[i].isna /\ ~cells[i].maybe_int
    IN  IF float THEN "float64"
        ELSE IF uint THEN "uint64" ELSE "int64"

maybe_convert_numeric(ids0, fma) ==
    The({{[dtype |-> dtype_of(cells), cells |-> cells]
          : cells \in cells_of(ids, fma)}
         : ids \in {ids0}})

\* pd.to_numeric(ids, errors='coerce') of a column of unit ids: the columns it
\* can give, one for every build of the parser.
to_numeric(ids) == UNION {maybe_convert_numeric(ids, fma) : fma \in BOOLEAN}

\* Row i is before row j in the column P_Sort, and the two are equal in it: by
\* number, a missing value last.
p_sort_less(col, i, j) ==
    IF col.dtype = "float64"
    THEN /\ ~col.cells[i].isna
         /\ \/ col.cells[j].isna
            \/ num_less(col.cells[i].fval, col.cells[j].fval)
    ELSE cell_int_less(col.cells[i], col.cells[j])
p_sort_equal(col, i, j) == ~p_sort_less(col, i, j) /\ ~p_sort_less(col, j, i)

\* The order of sort_values(['P_Sort', 'Category']) on the rows of the pivot.
PSortLess(col, rows, i, j) ==
    \/ p_sort_less(col, i, j)
    \/ p_sort_equal(col, i, j) /\ StrLess(rows[i].Category, rows[j].Category)

\* " vs " and "N/A"
str_vs == <<32, 118, 115, 32>>
str_NA == <<78, 47, 65>>

\* v2app.py tab2: the top-2 rows of every group, ranked by cumcount, pivoted to
\* one row per group. The pivot has a column per rank that occurs: when no group
\* has a second row it has 5 columns, and naming 8 raises ValueError. The
\* results it can give: one for every column P_Sort that to_numeric can give.
tab2_pivot(data) ==
    LET m_agg  == sort_values(groupby_sum(data))
        top_2  == head(m_agg, 2)
        Rank(i) == cumcount(top_2, i) + 1
        ranks  == {Rank(i) : i \in 1..Len(top_2)}
        index  == SortKeys({<<top_2[i].Prabhag, top_2[i].Election_type>> :
                               i \in 1..Len(top_2)})
        Cell(g, rk) == {i \in 1..Len(top_2) :
                          /\ top_2[i].Prabhag = g[1]
                          /\ top_2[i].Election_type = g[2]
                          /\ Rank(i) = rk}
        Row(g) ==
            LET w   == top_2[CHOOSE i \in Cell(g, 1) : TRUE]
                has == Cell(g, 2) # {}
                r   == top_2[CHOOSE i \in Cell(g, 2) : TRUE]
                Run_Votes == IF has THEN notna(r.Votes) ELSE NaN
                Run_Party == IF has THEN notna(r.Party) ELSE NaN
            IN  [Prabhag |-> g[1], Category |-> g[2],
                 Winner |-> w.Name,
                 RunnerUp |-> IF has THEN notna(r.Name) ELSE NaN,
                 Win_Party |-> w.Party, Run_Party |-> Run_Party,
                 Win_Votes |-> w.Votes, Run_Votes |-> Run_Votes,
                 Margin |-> w.Votes - fillna(Run_Votes, 0),
                 Party_Fight |-> w.Party \o str_vs \o fillna(Run_Party, str_NA)]
    IN  IF 2 + 3 * Cardinality(ranks) # 8
        THEN {[error |-> "ValueError", rows |-> <<>>]}
        ELSE UNION {{[error |-> "none",
                      rows |-> StableSort(rows,
                                   [i \in 1..Len(rows), j \in 1..Len(rows) |->
                                       PSortLess(col, rows, i, j)])]
                     : col \in to_numeric([k \in 1..Len(rows) |-> rows[k].Prabhag])}
                    : rows \in {[k \in 1..Len(index) |-> Row(index[k])]}}

\* ------------------------------------------------------------ inputs

MaxRows == 3

\* "10.0" and "2.0" (the ids of a unit column that was read as numbers), "2",
\* "General", "Local", "A", "B", "C", "PartyX" and "PartyY"
f10 == <<49, 48, 46, 48>>
f2 == <<50, 46, 48>>
u2 == <<50>>
General == <<71>>
Local == <<76>>
A == <<65>>
B == <<66>>
C == <<67>>
PartyX == <<88>>
PartyY == <<89>>

\* The ballot of the inputs: the (unit, category, candidate, party) keys whose
\* records carry any of the vote values. Three candidates stand in
\* ("10.0", General).
Ballot == {<<f10, General, A, PartyX>>, <<f10, General, B, PartyY>>,
           <<f10, General, C, PartyX>>}
VoteValues == {0, 1, 2}

VoteRecord(k, v) ==
    [Prabhag |-> k[1], Election_type |-> k[2], Name |-> k[3], Party |-> k[4],
     Votes |-> v]

\* The records of the inputs: those of the ballot, the two candidates of
\* ("2.0", Local) and the one of ("2", Local); the id "2" is all digits.
Records == {VoteRecord(k, v) : k \in Ballot, v \in VoteValues}
               \cup {VoteRecord(<<f2, Local, A, PartyX>>, 1),
                     VoteRecord(<<f2, Local, B, PartyY>>, 1),
                     VoteRecord(<<u2, Local, A, PartyX>>, 1)}

SeqsUpTo(S, n) == UNION {[1..m -> S] : m \in 0..n}

\* ------------------------------------------------------------ the margin analyses

NoPivot == [error |-> "none", rows |-> <<>>]

MarginIdle ==
    /\ entries = <<>>
    /\ margin_df = <<>>
    /\ pivot = NoPivot
    /\ pc_app = "start"
    /\ pc_v2 = "start"

ReportIdle ==
    /\ rpc = "start"
    /\ unique_prabhags = <<>>
    /\ selected_pdf_prabhags = {}
    /\ selected_pdf_parties = {}
    /\ report = "none"
    /\ report_prabhags = <<>>
    /\ pages = <<>>
    /\ tmp_files = 0
    /\ outcome = "none"

\* load_data has returned df; neither script has run its tabs.
Init ==
    /\ table \in SeqsUpTo(Records, MaxRows)
    /\ MarginIdle
    /\ script = "app"
    /\ ReportIdle

\* app.py: if df.empty: st.stop()
AppStop ==
    /\ pc_app = "start"
    /\ table = <<>>
    /\ pc_app' = "stopped"
    /\ UNCHANGED <<table, entries, margin_df, pivot, pc_v2, reportVars>>

\* app.py up to tab2: the sidebar sorts the unit ids with natural_sort_key,
\* and an exception of that sort ends the script run before any tab is drawn;
\* else tab2 computes margin_df = get_margin_analysis(df).
AppTab2 ==
    /\ pc_app = "start"
    /\ table # <<>>
    /\ IF sorted_natural(unique(Prabhags(table))).error # "none"
       THEN /\ pc_app' = "sidebar_raised"
            /\ UNCHANGED <<entries, margin_df>>
       ELSE /\ entries' = groupby_sum(table)
            /\ margin_df' = get_margin_analysis(table)
            /\ pc_app' = "tab2"
    /\ UNCHANGED <<table, pivot, pc_v2, reportVars>>

\* v2app.py: if df.empty: st.warning(...); st.stop()
V2Stop ==
    /\ pc_v2 = "start"
    /\ table = <<>>
    /\ pc_v2' = "stopped"
    /\ UNCHANGED <<table, entries, margin_df, pivot, pc_app, reportVars>>

\* v2app.py up to tab2: the sidebar sort, whose exception ends the script run
\* before any tab is drawn; else the pivot of tab2, whose ValueError ends the
\* script run.
V2Tab2 ==
    /\ pc_v2 = "start"
    /\ table # <<>>
    /\ IF sorted_natural(unique(Prabhags(table))).error # "none"
       THEN /\ pc_v2' = "sidebar_raised"
            /\ UNCHANGED pivot
       ELSE /\ pivot' \in tab2_pivot(table)
            /\ pc_v2' = IF pivot'.error = "none" THEN "tab2" ELSE "raised"
    /\ UNCHANGED <<table, entries, margin_df, pc_app, reportVars>>

Next == AppStop \/ AppTab2 \/ V2Stop \/ V2Tab2

\* The margin analyses of both scripts on one loaded table.
Spec == Init /\ [][Next]_vars

\* ------------------------------------------------------------ what the claims speak of

\* The (unit, category) groups of a table and the aggregated entries of a group.
GroupsOf(tbl) == {<<tbl[i].Prabhag, tbl[i].Election_type>> : i \in 1..Len(tbl)}
EntryKeys(tbl, g) ==
    {Key4(tbl[i]) : i \in {j \in 1..Len(tbl) : <<tbl[j].Prabhag, tbl[j].Election_type>> = g}}

RECURSIVE SumIdx(_, _)
SumIdx(tbl, I) ==
    IF I = {} THEN 0
    ELSE LET i == CHOOSE x \in I : TRUE IN tbl[i].Votes + SumIdx(tbl, I \ {i})

\* The total votes of a key: the sum over all the records that carry it.
TotalOf(tbl, k) == SumIdx(tbl, {i \in 1..Len(tbl) : Key4(tbl[i]) = k})

\* Where a key first appears in the input.
FirstPos(tbl, k) == CHOOSE i \in 1..Len(tbl) :
    Key4(tbl[i]) = k /\ \A j \in 1..(i - 1) : Key4(tbl[j]) # k

KeyLeq(a, b) == a = b \/ TupleLess(a, b)

AppRowsOf(g) ==
    {i \in 1..Len(margin_df) :
        margin_df[i].Prabhag = g[1] /\ margin_df[i].Election_type = g[2]}
V2RowsOf(g) ==
    {i \in 1..Len(pivot.rows) :
        pivot.rows[i].Prabhag = g[1] /\ pivot.rows[i].Category = g[2]}

AppWinner(i) == <<margin_df[i].Prabhag, margin_df[i].Election_type,
                  margin_df[i].Name_W, margin_df[i].Party_W>>
AppRunner(i) == <<margin_df[i].Prabhag, margin_df[i].Election_type,
                  margin_df[i].Name_R, margin_df[i].Party_R>>
V2Winner(i) == <<pivot.rows[i].Prabhag, pivot.rows[i].Category,
                 pivot.rows[i].Winner, pivot.rows[i].Win_Party>>
V2Runner(i) == <<pivot.rows[i].Prabhag, pivot.rows[i].Category,
                 pivot.rows[i].RunnerUp.value, pivot.rows[i].Run_Party.value>>

Contested(g) == Cardinality(EntryKeys(table, g)) >= 2

\* The margin computation of v2app.py has run: tab2 was reached, and the pivot
\* was made or has raised.
V2Ran == pc_v2 \in {"tab2", "raised"}

\* wk with wv votes is a top entry of group g, rk with rv votes a different
\* entry that tops all the others, and m is the gap.
TopTwo(g, wk, wv, rk, rv, m) ==
    LET K == EntryKeys(table, g)
    IN  /\ wk \in K /\ rk \in K /\ rk # wk
        /\ wv = TotalOf(table, wk) /\ rv = TotalOf(table, rk)
        /\ \A k \in K : TotalOf(table, k) <= wv
        /\ \A k \in K \ {wk} : TotalOf(table, k) <= rv
        /\ m = wv - rv

\* C1: in every group with at least two aggregated entries both margin
\* computations report one row, whose winner has the largest total, whose
\* runner-up is another entry with the largest total among the rest, and whose
\* margin is the winner's total minus the runner-up's.
C1_WinnerRunnerUpMargin ==
    \A g \in GroupsOf(table) : Contested(g) =>
        /\ pc_app = "tab2" =>
              /\ Cardinality(AppRowsOf(g)) = 1
              /\ \A i \in AppRowsOf(g) :
                    TopTwo(g, AppWinner(i), margin_df[i].Votes_W,
                           AppRunner(i), margin_df[i].Votes_R, margin_df[i].Margin)
        /\ V2Ran =>
              /\ pc_v2 = "tab2"
              /\ Cardinality(V2RowsOf(g)) = 1
              /\ \A i \in V2RowsOf(g) :
                    /\ ~pivot.rows[i].RunnerUp.isna
                    /\ ~pivot.rows[i].Run_Votes.isna
                    /\ TopTwo(g, V2Winner(i), pivot.rows[i].Win_Votes,
                              V2Runner(i), pivot.rows[i].Run_Votes.value,
                              pivot.rows[i].Margin)

\* Both computations have run on a group of three entries with three different
\* totals, and report a positive margin.
C1_Witness ==
    /\ pc_app = "tab2" /\ pc_v2 = "tab2"
    /\ \E g \in GroupsOf(table) :
          /\ Cardinality(EntryKeys(table, g)) = 3
          /\ Cardinality({TotalOf(table, k) : k \in EntryKeys(table, g)}) = 3
          /\ \E i \in AppRowsOf(g) : margin_df[i].Margin > 0
          /\ \E i \in V2RowsOf(g) : pivot.rows[i].Margin > 0

\* e is tied with the entry k of the same group.
Tied(k, e) == TotalOf(table, k) = TotalOf(table, e)

\* The ranking of ties the claim C2 states: no entry tied with the reported
\* winner appeared before it in the input, and no other entry tied with the
\* reported runner-up appeared before the runner-up.
InputOrderTies(g, wk, rk) ==
    LET K == EntryKeys(table, g)
    IN  /\ \A e \in K : Tied(wk, e) => FirstPos(table, wk) <= FirstPos(table, e)
        /\ \A e \in K \ {wk} : Tied(rk, e) => FirstPos(table, rk) <= FirstPos(table, e)

\* The ranking of ties the code computes: among tied entries the one with the
\* smaller (candidate name, party) comes first, whatever the input order.
KeyOrderTies(g, wk, rk) ==
    LET K == EntryKeys(table, g)
    IN  /\ \A e \in K : Tied(wk, e) => KeyLeq(wk, e)
        /\ \A e \in K \ {wk} : Tied(rk, e) => KeyLeq(rk, e)

\* C2 as stated: tied candidates are ranked in the order in which they first
\* appeared in the input, for every input order.
C2_TiesByInputOrder ==
    \A g \in GroupsOf(table) : Contested(g) =>
        /\ pc_app = "tab2" =>
              \A i \in AppRowsOf(g) : InputOrderTies(g, AppWinner(i), AppRunner(i))
        /\ pc_v2 = "tab2" =>
              \A i \in V2RowsOf(g) : InputOrderTies(g, V2Winner(i), V2Runner(i))

\* C2 amended: tied candidates are ranked in ascending order of (candidate
\* name, party), the key order of the aggregation, for every input order; the
\* rows (A,x), (B,y), (C,y) with x > y give winner A and runner-up B in any order.
C2_TiesByKeyOrder ==
    \A g \in GroupsOf(table) : Contested(g) =>
        /\ pc_app = "tab2" =>
              /\ AppRowsOf(g) # {}
              /\ \A i \in AppRowsOf(g) : KeyOrderTies(g, AppWinner(i), AppRunner(i))
        /\ pc_v2 = "tab2" =>
              /\ V2RowsOf(g) # {}
              /\ \A i \in V2RowsOf(g) : KeyOrderTies(g, V2Winner(i), V2Runner(i))

\* Both computations have run on the rows (C,y), (B,y), (A,x) with x > y in
\* this input order, and report the runner-up B although C came first.
C2_Witness ==
    /\ pc_app = "tab2" /\ pc_v2 = "tab2"
    /\ Len(table) = 3
    /\ Key4(table[1]) = <<f10, General, C, PartyX>>
    /\ Key4(table[2]) = <<f10, General, B, PartyY>>
    /\ Key4(table[3]) = <<f10, General, A, PartyX>>
    /\ table[1].Votes = table[2].Votes /\ table[3].Votes > table[1].Votes
    /\ \E i \in AppRowsOf(<<f10, General>>) :
          margin_df[i].Name_W = A /\ margin_df[i].Name_R = B
    /\ \E i \in V2RowsOf(<<f10, General>>) :
          pivot.rows[i].Winner = A /\ pivot.rows[i].RunnerUp = notna(B)

\* C3 as stated: the margin analysis has one result for every group of its
\* input; the result of a group with one candidate has no runner-up and the
\* winner's total as its margin.
C3_OneResultPerGroup ==
    \A g \in GroupsOf(table) :
        /\ pc_app = "tab2" => Cardinality(AppRowsOf(g)) = 1
        /\ V2Ran =>
              /\ pc_v2 = "tab2"
              /\ Cardinality(V2RowsOf(g)) = 1
              /\ ~Contested(g) =>
                    \A i \in V2RowsOf(g) :
                        /\ pivot.rows[i].RunnerUp.isna
                        /\ pivot.rows[i].Margin = pivot.rows[i].Win_Votes
                        /\ pivot.rows[i].Win_Votes = TotalOf(table, V2Winner(i))

\* C4: in a group with at least two candidates the margin is never negative,
\* and it is 0 only when two different entries both hold the largest total.
C4_MarginNonNegative ==
    \A g \in GroupsOf(table) : Contested(g) =>
        LET K == EntryKeys(table, g)
            TopTie == \E a \in K : \E b \in K \ {a} :
                          /\ Tied(a, b)
                          /\ \A k \in K : TotalOf(table, k) <= TotalOf(table, a)
        IN  /\ pc_app = "tab2" =>
                  /\ AppRowsOf(g) # {}
                  /\ \A i \in AppRowsOf(g) :
                        /\ margin_df[i].Margin >= 0
                        /\ margin_df[i].Margin = 0 => TopTie
            /\ pc_v2 = "tab2" =>
                  /\ V2RowsOf(g) # {}
                  /\ \A i \in V2RowsOf(g) :
                        /\ pivot.rows[i].Margin >= 0
                        /\ pivot.rows[i].Margin = 0 => TopTie

\* Both computations have run and report the margin 0 for a group whose two
\* top entries are tied on a positive total, a third entry being behind.
C4_Witness ==
    /\ pc_app = "tab2" /\ pc_v2 = "tab2"
    /\ \E i \in 1..Len(margin_df) :
          LET g == <<margin_df[i].Prabhag, margin_df[i].Election_type>>
          IN  /\ margin_df[i].Margin = 0 /\ margin_df[i].Votes_W > 0
              /\ \E k \in EntryKeys(table, g) :
                    TotalOf(table, k) < margin_df[i].Votes_W
              /\ \E j \in V2RowsOf(g) :
                    pivot.rows[j].Margin = 0 /\ pivot.rows[j].Win_Votes > 0

\* The permutations of 1..n, for every length of table.
Perms == [n \in 0..MaxRows |->
             {f \in [1..n -> 1..n] : \A i \in 1..n : \E j \in 1..n : f[j] = i}]

\* The orders in which the records of tbl can be given.
Orderings(tbl) == {[i \in 1..Len(tbl) |-> tbl[f[i]]] : f \in Perms[Len(tbl)]}

\* C9: the aggregated entries are the same for every order of the same
\* records: one entry per key, its total the sum of the votes of the key.
C9_AggregationOrderIndependent ==
    pc_app = "tab2" =>
        /\ \A p \in Orderings(table) : groupby_sum(p) = entries
        /\ {Key4(entries[i]) : i \in 1..Len(entries)}
               = {Key4(table[i]) : i \in 1..Len(table)}
        /\ \A i \in 1..Len(entries) :
              /\ entries[i].Votes = TotalOf(table, Key4(entries[i]))
              /\ \A j \in 1..Len(entries) : j # i => Key4(entries[j]) # Key4(entries[i])

\* The aggregation has run on a table that gives one key twice, with different
\* votes and the record of another key in between.
C9_Witness ==
    /\ pc_app = "tab2"
    /\ Len(table) = 3
    /\ Key4(table[1]) = Key4(table[3]) /\ Key4(table[2]) # Key4(table[1])
    /\ table[1].Votes # table[3].Votes
    /\ \E i \in 1..Len(entries) :
          entries[i].Votes = table[1].Votes + table[3].Votes /\ entries[i].Votes = 3

\* ------------------------------------------------------------ report data

\* data[data['Prabhag'].isin(prabhag_list) & data['Party'].isin(party_list)]
filter_rows(data, prabhag_list, party_list) ==
    SelectSeq(data, LAMBDA r : r.Prabhag \in prabhag_list /\ r.Party \in party_list)

\* app.py: p_df.groupby(['Name', 'Party'])['Votes'].sum().reset_index()
chart_data_app(p_df) ==
    LET keys == SortKeys({<<p_df[i].Name, p_df[i].Party>> : i \in 1..Len(p_df)})
    IN  [k \in 1..Len(keys) |->
            [Name |-> keys[k][1], Party |-> keys[k][2],
             Votes |-> SumVotes(SelectSeq(p_df,
                 LAMBDA r : <<r.Name, r.Party>> = keys[k]))]]

\* The order of sort_values(by=['Party', 'Votes'], ascending=[True, False]).
PartyVotesLess(a, b) ==
    \/ StrLess(a.Party, b.Party)
    \/ a.Party = b.Party /\ a.Votes > b.Votes

\* v2app.py: p_df.groupby(['Name', 'Party', 'Election_type'])['Votes'].sum()
\*     .reset_index(), then sorted by Party and by Votes descending.
chart_data_v2(p_df) ==
    LET keys == SortKeys({<<p_df[i].Name, p_df[i].Party, p_df[i].Election_type>> :
                             i \in 1..Len(p_df)})
        rows == [k \in 1..Len(keys) |->
                    [Name |-> keys[k][1], Party |-> keys[k][2],
                     Election_type |-> keys[k][3],
                     Votes |-> SumVotes(SelectSeq(p_df,
                         LAMBDA r : <<r.Name, r.Party, r.Election_type>> = keys[k]))]]
    IN  StableSort(rows, [i \in 1..Len(rows), j \in 1..Len(rows) |->
                             PartyVotesLess(rows[i], rows[j])])

MarginLess(a, b) == a.Margin < b.Margin

\* type_df.sort_values('Margin'): a sort by one column, for which pandas asks
\* numpy for its default 'quicksort'. That sort is not stable, and which order
\* rows of equal Margin come out in depends on the numpy build: every order of
\* the rows with Margin ascending is an outcome.
sort_by_margin(type_df) ==
    LET n == Len(type_df)
        perms == {f \in [1..n -> 1..n] : \A i \in 1..n : \E j \in 1..n : f[j] = i}
    IN  {[k \in 1..n |-> type_df[f[k]]] :
            f \in {g \in perms : \A i, j \in 1..n :
                      i < j => ~MarginLess(type_df[g[j]], type_df[g[i]])}}

\* app.py margin report: get_margin_analysis(df) on the whole table, then the
\* rows of the selected units. The party filter is not read.
m_report_df(data, prabhag_list, party_list) ==
    SelectSeq(get_margin_analysis(data), LAMBDA r : r.Prabhag \in prabhag_list)

\* What one page of a report can show: the possible tables of its chart.
page_data(rep, data, prabhag_list, party_list, label) ==
    IF rep = "margin_report"
    THEN sort_by_margin(SelectSeq(m_report_df(data, prabhag_list, party_list),
                              LAMBDA r : r.Election_type = label))
    ELSE LET p_df == SelectSeq(filter_rows(data, prabhag_list, party_list),
                               LAMBDA r : r.Prabhag = label)
         IN  IF rep = "generate_pdf" THEN {chart_data_v2(p_df)}
             ELSE {chart_data_app(p_df)}

\* The labels a report loops over: the units of the filtered rows in natural
\* order, or the categories of the margin rows in string order.
report_labels(rep, data, prabhag_list, party_list) ==
    IF rep = "margin_report"
    THEN [error |-> "none",
          value |-> sorted_str(unique(Election_types(
                        m_report_df(data, prabhag_list, party_list))))]
    ELSE sorted_natural(unique(Prabhags(filter_rows(data, prabhag_list, party_list))))

\* ------------------------------------------------------------ report inputs

MaxReportRows == 3

\* The Devanagari digit seven, "10", "Ward-A" and the superscript two
u7 == <<2413>>
u10 == <<49, 48>>
WardA == <<87, 97, 114, 100, 45, 65>>
sup2 == <<178>>

\* The results file of the report runs: the table holds any of these records,
\* in any order.
ReportRecords ==
    {VoteRecord(<<u2, General, A, PartyX>>, 2), VoteRecord(<<u2, General, B, PartyY>>, 1),
     VoteRecord(<<u7, General, A, PartyX>>, 1),
     VoteRecord(<<u10, General, A, PartyX>>, 1), VoteRecord(<<u10, General, B, PartyY>>, 2),
     VoteRecord(<<WardA, General, A, PartyX>>, 1),
     VoteRecord(<<sup2, General, B, PartyY>>, 1)}

\* How the chart of a page can go, and how the text that generate_pdf writes
\* in its except block can.
Renders == {"ok", "page_raises", "render_raises", "embed_raises", "remove_raises"}
Fallbacks == {"ok", "fallback_raises"}
Outputs == {"ok", "output_raises"}

\* ------------------------------------------------------------ a report run

InitReport ==
    /\ table \in SeqsUpTo(ReportRecords, MaxReportRows)
    /\ MarginIdle
    /\ script \in {"app", "v2app"}
    /\ ReportIdle

\* if df.empty: st.stop()
Stop ==
    /\ rpc = "start"
    /\ table = <<>>
    /\ rpc' = "stopped"
    /\ UNCHANGED <<table, marginVars, script, unique_prabhags, selected_pdf_prabhags,
                   selected_pdf_parties, report, report_prabhags, pages, tmp_files,
                   outcome>>

\* The sidebar: unique_prabhags = sorted(df['Prabhag'].unique(),
\* key=natural_sort_key), which may raise and end the run, and the two
\* multiselects, whose values are any of the options.
Sidebar(P, Q) ==
    /\ rpc = "start"
    /\ table # <<>>
    /\ LET s == sorted_natural(unique(Prabhags(table)))
       IN  IF s.error # "none"
           THEN /\ P = {} /\ Q = {}
                /\ rpc' = "crashed"
                /\ outcome' = s.error
                /\ UNCHANGED <<unique_prabhags, selected_pdf_prabhags,
                               selected_pdf_parties>>
           ELSE /\ P \subseteq Range(s.value)
                /\ Q \subseteq Range(Parties(table))
                /\ unique_prabhags' = s.value
                /\ selected_pdf_prabhags' = P
                /\ selected_pdf_parties' = Q
                /\ rpc' = "tabs"
                /\ UNCHANGED outcome
    /\ UNCHANGED <<table, marginVars, script, report, report_prabhags, pages, tmp_files>>

\* The tabs before the export tab: app.py computes margin_df; v2app.py computes
\* the pivot, and its ValueError ends the run before the export tab is drawn.
Tabs ==
    /\ rpc = "tabs"
    /\ IF script = "app"
       THEN /\ entries' = groupby_sum(table)
            /\ margin_df' = get_margin_analysis(table)
            /\ rpc' = "export"
            /\ UNCHANGED <<pivot, outcome>>
       ELSE /\ pivot' \in tab2_pivot(table)
            /\ rpc' = IF pivot'.error = "none" THEN "export" ELSE "crashed"
            /\ outcome' = IF pivot'.error = "none" THEN outcome ELSE pivot'.error
            /\ UNCHANGED <<entries, margin_df>>
    /\ UNCHANGED <<table, pc_app, pc_v2, script, unique_prabhags, selected_pdf_prabhags,
                   selected_pdf_parties, report, report_prabhags, pages, tmp_files>>

\* A button of the export tab is pressed. v2app.py refuses an empty unit filter
\* with st.error, and shows st.error when generate_pdf returns None (no unit
\* left after the filters). app.py starts its loop whatever the filters are.
Click(b) ==
    /\ rpc = "export"
    /\ b \in IF script = "app" THEN {"full_result", "margin_report"} ELSE {"generate_pdf"}
    /\ report' = b
    /\ LET labels == report_labels(b, table, selected_pdf_prabhags, selected_pdf_parties)
       IN  IF b = "generate_pdf" /\ selected_pdf_prabhags = {}
           THEN /\ rpc' = "done"
                /\ outcome' = "st.error"
                /\ UNCHANGED report_prabhags
           ELSE IF labels.error # "none"
           THEN /\ rpc' = "crashed"
                /\ outcome' = labels.error
                /\ UNCHANGED report_prabhags
           ELSE IF b = "generate_pdf" /\ labels.value = <<>>
           THEN /\ rpc' = "done"
                /\ outcome' = "st.error"
                /\ report_prabhags' = labels.value
           ELSE /\ rpc' = "loop"
                /\ report_prabhags' = labels.value
                /\ UNCHANGED outcome
    /\ UNCHANGED <<table, marginVars, script, unique_prabhags, selected_pdf_prabhags,
                   selected_pdf_parties, pages, tmp_files>>

\* One turn of the report loop: add_page and the title, then the chart. r says
\* which call raises, if any: add_page or the title cell (a text the core font
\* cannot encode), fig.to_image, the calls that put the image into the PDF once
\* its temporary file is made (img.save, tmp.write, pdf.image), or os.remove
\* after them. The first is outside every try and ends the run in both
\* scripts. app.py catches nothing and never removes the file it made with
\* delete=False. generate_pdf removes the file only after pdf.image has
\* returned, and catches the other three in one except block, which writes
\* the table as text below what the page has; f says whether a call of that
\* block raises (st.warning, set_font, the cell of the heading or of a row):
\* it is outside every try, and the exception ends the run.
Page(r, f) ==
    /\ rpc = "loop"
    /\ Len(pages) < Len(report_prabhags)
    /\ r = "remove_raises" => report = "generate_pdf"
    /\ f = "fallback_raises" =>
          report = "generate_pdf" /\ r \in {"render_raises", "embed_raises", "remove_raises"}
    /\ LET label == report_prabhags[Len(pages) + 1]
           kind == IF r = "page_raises" THEN "blank"
                   ELSE IF r = "ok" THEN "chart"
                   ELSE IF report # "generate_pdf" THEN "title"
                   ELSE IF r = "remove_raises"
                   THEN IF f = "ok" THEN "chart_text" ELSE "chart"
                   ELSE IF f = "ok" THEN "text" ELSE "title"
       IN  \E data \in page_data(report, table, selected_pdf_prabhags,
                                 selected_pdf_parties, label) :
               pages' = Append(pages, [label |-> label, kind |-> kind, render |-> r,
                                       fallback |-> f,
                                       data |-> IF r = "page_raises" THEN <<>>
                                                ELSE data])
    /\ tmp_files' = IF r \in {"page_raises", "render_raises"} THEN tmp_files
                    ELSE IF report = "generate_pdf" /\ r = "ok" THEN tmp_files
                    ELSE tmp_files + 1
    /\ IF r = "page_raises"
       THEN rpc' = "crashed" /\ outcome' = "EncodingError"
       ELSE IF r # "ok" /\ report # "generate_pdf"
       THEN rpc' = "crashed" /\ outcome' = "RenderError"
       ELSE IF f = "fallback_raises"
       THEN rpc' = "crashed" /\ outcome' = "FallbackError"
       ELSE UNCHANGED <<rpc, outcome>>
    /\ UNCHANGED <<table, marginVars, script, unique_prabhags, selected_pdf_prabhags,
                   selected_pdf_parties, report, report_prabhags>>

\* The loop is over and the PDF is written: o says whether pdf.output raises
\* (it draws the footer of the last page, with the watermark the user typed).
\* app.py has no handler: the exception ends the run. generate_pdf calls
\* pdf.output() once more and then returns b'PDF generation failed', for which
\* the caller shows st.error in place of the download.
Finish(o) ==
    /\ rpc = "loop"
    /\ Len(pages) = Len(report_prabhags)
    /\ IF o = "ok" THEN rpc' = "done" /\ outcome' = "download"
       ELSE IF report = "generate_pdf" THEN rpc' = "done" /\ outcome' = "st.error"
       ELSE rpc' = "crashed" /\ outcome' = "OutputError"
    /\ UNCHANGED <<table, marginVars, script, unique_prabhags, selected_pdf_prabhags,
                   selected_pdf_parties, report, report_prabhags, pages, tmp_files>>

NextReport ==
    \/ Stop
    \/ \E P \in SUBSET Range(Prabhags(table)), Q \in SUBSET Range(Parties(table)) :
          Sidebar(P, Q)
    \/ Tabs
    \/ \E b \in {"generate_pdf", "full_result", "margin_report"} : Click(b)
    \/ \E r \in Renders, f \in Fallbacks : Page(r, f)
    \/ \E o \in Outputs : Finish(o)

\* One run of one script, from the sidebar to the end of a report.
SpecReport == InitReport /\ [][NextReport]_vars

\* ------------------------------------------------------------ what the report claims speak of

\* x comes before y in the natural order: a numeric id before one that is not,
\* two numeric ids by their number, two others as strings.
NaturalBefore(x, y) ==
    IF isdigit(x) /\ isdigit(y) THEN int_less(int(x).value, int(y).value)
    ELSE IF isdigit(x) # isdigit(y) THEN isdigit(x)
    ELSE StrLess(x, y)

\* xs lists the ids of the set S once each, in natural order.
InNaturalOrder(xs, S) ==
    /\ Len(xs) = Cardinality(S)
    /\ Range(xs) = S
    /\ \A i, j \in 1..Len(xs) : i < j => ~NaturalBefore(xs[j], xs[i])

\* The rows that pass the unit filter and the party filter.
Passing == {i \in 1..Len(table) :
               /\ table[i].Prabhag \in selected_pdf_prabhags
               /\ table[i].Party \in selected_pdf_parties}
FilteredTable == Take(table, Passing)

PerUnit == report \in {"generate_pdf", "full_result"}
Ended == rpc \in {"done", "crashed"}
Exceptions == {"TypeError", "ValueError", "EncodingError", "RenderError",
               "FallbackError", "OutputError"}
Labels == [i \in 1..Len(pages) |-> pages[i].label]

\* No call that writes the text of a page has raised in the loop (the title,
\* the lines of the fallback), and pdf.output has not raised: the failures
\* that are no matter of the filters or of the charts.
TextCallsPass ==
    \A i \in 1..Len(pages) :
        pages[i].render # "page_raises" /\ pages[i].fallback = "ok"
OutputFailed ==
    \/ outcome = "OutputError"
    \/ report = "generate_pdf" /\ outcome = "st.error" /\ pages # <<>>

\* C5 as stated: sorting the unit ids with natural_sort_key succeeds also for a
\* list that mixes numeric and non-numeric ids, and gives the numeric ids in
\* ascending number order followed by the non-numeric ones. (The ids are such
\* that int() reads every id that passes isdigit.)
C5_NaturalSortSucceeds ==
    ( /\ rpc \notin {"start", "stopped"}
      /\ \A i \in 1..Len(table) :
            isdigit(table[i].Prabhag) => int(table[i].Prabhag).error = "none" )
    =>  /\ outcome \notin {"TypeError", "ValueError"}
        /\ InNaturalOrder(unique_prabhags, Range(Prabhags(table)))

\* C6 as stated: when rendering raises for one unit and for no other, the
\* report is still delivered with a page for every unit of the report, the
\* failing unit's page carrying the text lines. (The calls that write text
\* and pdf.output do not raise.)
C6_RenderFailureKeepsAllPages ==
    ( /\ Ended /\ PerUnit
      /\ Cardinality({i \in 1..Len(pages) : pages[i].render = "render_raises"}) = 1
      /\ \A i \in 1..Len(pages) :
            pages[i].render \notin {"embed_raises", "remove_raises"}
      /\ TextCallsPass /\ ~OutputFailed )
    => /\ outcome = "download"
       /\ Labels = report_prabhags
       /\ \A i \in 1..Len(pages) :
             pages[i].render = "render_raises" =>
                 pages[i].kind = "text" /\ pages[i].data # <<>>

\* C7 as stated: when the filters match no row, the per-unit report ends with
\* no page, no exception, and no error outcome for the caller.
C7_EmptyFilterIsNoError ==
    (Ended /\ PerUnit /\ Passing = {}) =>
        pages = <<>> /\ outcome \notin Exceptions \cup {"st.error"}

\* C8 as stated: in every report variant the rows are filtered by unit and by
\* party before the aggregation. A page of the per-unit report shows only
\* parties of the filter, with the sums of the passing rows; a page of the
\* margin report shows the margin analysis of the passing rows.
C8_FilteredBeforeAggregation ==
    \A i \in {j \in 1..Len(pages) : pages[j].render # "page_raises"} :
        IF report = "margin_report"
        THEN pages[i].data \in
                 sort_by_margin(SelectSeq(get_margin_analysis(FilteredTable),
                     LAMBDA r : r.Election_type = pages[i].label))
        ELSE \A k \in 1..Len(pages[i].data) :
                 LET row == pages[i].data[k]
                 IN  /\ row.Party \in selected_pdf_parties
                     /\ row.Votes = SumIdx(table, {j \in Passing :
                            /\ table[j].Prabhag = pages[i].label
                            /\ table[j].Name = row.Name
                            /\ table[j].Party = row.Party})

\* C10 as stated: the per-unit report starts one page for every unit that has
\* a row passing the filters, in natural order of the unit ids. (The calls that
\* write the text of a page do not raise.)
C10_PagesInNaturalOrder ==
    (Ended /\ PerUnit /\ TextCallsPass) =>
        InNaturalOrder(Labels, {table[i].Prabhag : i \in Passing})

\* C11 as stated: temporary image files do not accumulate. After each page
\* has been finished, by an embedded chart or by the textual fallback, every
\* temporary file made for it has been removed, so that no temporary file exists
\* between two pages or at the end of the report, in every report variant and
\* whether embedding the image succeeds or raises.
C11_NoTemporaryFilesOutstanding ==
    tmp_files = 0

\* ------------------------------------------------------------ the two margin analyses compared

\* C12: the two margin computations agree. For every table and every group
\* with at least two candidates, the row of get_margin_analysis (app.py) and the
\* row of the top-2 pivot (v2app.py) name the same winner and the same
\* runner-up, with the same votes and the same margin.
C12_MarginComputationsAgree ==
    (pc_app = "tab2" /\ V2Ran) =>
        \A g \in GroupsOf(table) : Contested(g) =>
            /\ pc_v2 = "tab2"
            /\ AppRowsOf(g) # {} /\ V2RowsOf(g) # {}
            /\ \A i \in AppRowsOf(g) : \A j \in V2RowsOf(g) :
                  /\ ~pivot.rows[j].RunnerUp.isna
                  /\ ~pivot.rows[j].Run_Party.isna
                  /\ ~pivot.rows[j].Run_Votes.isna
                  /\ AppWinner(i) = V2Winner(j)
                  /\ AppRunner(i) = V2Runner(j)
                  /\ margin_df[i].Votes_W = pivot.rows[j].Win_Votes
                  /\ margin_df[i].Votes_R = pivot.rows[j].Run_Votes.value
                  /\ margin_df[i].Margin = pivot.rows[j].Margin

\* Both computations have run on a table whose rows are not in key order and
\* whose contested group has three entries, all tied on a positive total, so
\* that winner and runner-up are decided by the ranking of ties alone; both
\* report a row for the group.
C12_Witness ==
    /\ pc_app = "tab2" /\ pc_v2 = "tab2"
    /\ \E g \in GroupsOf(table) :
          /\ Cardinality(EntryKeys(table, g)) = 3
          /\ \A k \in EntryKeys(table, g) : TotalOf(table, k) = 1
          /\ TupleLess(Key4(table[2]), Key4(table[1]))
          /\ AppRowsOf(g) # {} /\ V2RowsOf(g) # {}

====
